---- MODULE Spec2Model ----
(***************************************************************************)
(* A model of src/rules.rs of the clearurls crate: the provider matcher,   *)
(* the domain-key index, the redirection resolver and the field stripper.  *)
(*                                                                         *)
(* Strings are sequences of bytes (naturals 0..255).  Regular expressions  *)
(* are syntax trees; their text (Regex::as_str) is printed from the tree   *)
(* and their matches are computed with the leftmost-first (backtracking    *)
(* priority) semantics of the regex crate.                                 *)
(***************************************************************************)
EXTENDS Integers, Sequences, FiniteSets, TLC

VARIABLES provider, url, strip_referral_marketing, pc, out, before

vars == <<provider, url, strip_referral_marketing, pc, out, before>>

(***************************************************************************)
(* Characters and strings                                                  *)
(***************************************************************************)

\* The printable ASCII characters in code order, starting at the space (the
\* grave accent, which a string literal cannot hold, is spelled out).
AsciiChars ==
  <<" ", "!", "\"", "#", "$", "%", "&", "'", "(", ")", "*", "+", ",", "-", ".", "/",
    "0", "1", "2", "3", "4", "5", "6", "7", "8", "9", ":", ";", "<", "=", ">", "?",
    "@", "A", "B", "C", "D", "E", "F", "G", "H", "I", "J", "K", "L", "M", "N", "O",
    "P", "Q", "R", "S", "T", "U", "V", "W", "X", "Y", "Z", "[", "\\", "]", "^", "_",
    "grave", "a", "b", "c", "d", "e", "f", "g", "h", "i", "j", "k", "l", "m", "n", "o",
    "p", "q", "r", "s", "t", "u", "v", "w", "x", "y", "z", "{", "|", "}", "~">>

\* The byte of a printable ASCII character.
Ord(c) == 31 + (CHOOSE i \in 1..Len(AsciiChars) : AsciiChars[i] = c)

\* The byte string of a tuple of characters.
S(t) == [i \in 1..Len(t) |-> Ord(t[i])]

Range(f) == {f[i] : i \in DOMAIN f}

RECURSIVE Concat(_)
\* The concatenation of a sequence of strings.
Concat(ss) == IF ss = <<>> THEN <<>> ELSE Head(ss) \o Concat(Tail(ss))

RECURSIVE Join(_, _)
\* The strings of ss with sep between them.
Join(ss, sep) ==
  IF ss = <<>> THEN <<>>
  ELSE IF Len(ss) = 1 THEN ss[1]
  ELSE ss[1] \o sep \o Join(Tail(ss), sep)

Drop(s, n) == SubSeq(s, n + 1, Len(s))

Take(s, n) == SubSeq(s, 1, n)

\* str::starts_with
StartsWith(s, p) == Len(s) >= Len(p) /\ Take(s, Len(p)) = p

\* str::ends_with
EndsWith(s, p) == Len(s) >= Len(p) /\ Drop(s, Len(s) - Len(p)) = p

\* Option<T>: None is the empty sequence, Some(x) the one-element sequence.
None == <<>>

Some(x) == <<x>>

\* The position of the first occurrence of d in s at or after position i
\* (1-based), or 0.
RECURSIVE IndexFrom(_, _, _)
IndexFrom(s, d, i) ==
  IF i + Len(d) - 1 > Len(s) THEN 0
  ELSE IF SubSeq(s, i, i + Len(d) - 1) = d THEN i
  ELSE IndexFrom(s, d, i + 1)

RECURSIVE Replace(_, _, _)
\* str::replace: every non-overlapping occurrence of from, left to right.
Replace(s, from, to) ==
  LET i == IndexFrom(s, from, 1)
  IN IF i = 0 THEN s
     ELSE Take(s, i - 1) \o to \o Replace(Drop(s, i + Len(from) - 1), from, to)

RECURSIVE SplitInclusive(_, _)
\* str::split_inclusive: the pieces of s, each ending with the delimiter d
\* except possibly the last; no piece is empty.
SplitInclusive(s, d) ==
  IF s = <<>> THEN <<>>
  ELSE LET i == IndexFrom(s, d, 1)
       IN IF i = 0 THEN <<s>>
          ELSE <<Take(s, i + Len(d) - 1)>> \o SplitInclusive(Drop(s, i + Len(d) - 1), d)

RECURSIVE Split(_, _)
\* The pieces of s between occurrences of the byte c (empty pieces kept).
Split(s, c) ==
  LET i == IndexFrom(s, <<c>>, 1)
  IN IF i = 0 THEN <<s>> ELSE <<Take(s, i - 1)>> \o Split(Drop(s, i), c)

\* The bytes and short strings the code below names.
PERCENT == Ord("%")

COLON == Ord(":")

DASH == Ord("-")

DOT == Ord(".")

BACKSLASH == Ord("\\")

DIGIT_0 == Ord("0")

DIGIT_9 == Ord("9")

LOWER_A == Ord("a")

LOWER_F == Ord("f")

LOWER_Z == Ord("z")

UPPER_A == Ord("A")

UPPER_F == Ord("F")

UPPER_Z == Ord("Z")

PLUS == Ord("+")

SPACE == Ord(" ")

AMP == Ord("&")

EQUALS == Ord("=")

HASH == Ord("#")

QUESTION == Ord("?")

SLASH == Ord("/")

IsDigit(b) == b >= DIGIT_0 /\ b <= DIGIT_9

IsLower(b) == b >= LOWER_A /\ b <= LOWER_Z

IsUpper(b) == b >= UPPER_A /\ b <= UPPER_Z

IsHex(b) ==
  \/ IsDigit(b)
  \/ (b >= LOWER_A /\ b <= LOWER_F)
  \/ (b >= UPPER_A /\ b <= UPPER_F)

HexVal(b) ==
  IF IsDigit(b) THEN b - DIGIT_0
  ELSE IF IsLower(b) THEN b - LOWER_A + 10
  ELSE b - UPPER_A + 10

HexDigits == S(<<"0", "1", "2", "3", "4", "5", "6", "7", "8", "9", "A", "B", "C", "D", "E", "F">>)

\* "%XX", upper-case hexadecimal.
PercentEncodeByte(b) == <<PERCENT, HexDigits[(b \div 16) + 1], HexDigits[(b % 16) + 1]>>

(***************************************************************************)
(* percent_encoding and UTF-8                                              *)
(***************************************************************************)

\* Whether s holds a percent escape: a percent sign followed by two hexadecimal digits.
HasEscape(s) ==
  \E i \in 1..Len(s) : s[i] = PERCENT /\ i + 2 <= Len(s) /\ IsHex(s[i + 1]) /\ IsHex(s[i + 2])

RECURSIVE PercentDecode(_)
\* percent_decode: every "%XX" becomes the byte XX; every other byte stays.
PercentDecode(s) ==
  IF s = <<>> THEN <<>>
  ELSE IF s[1] = PERCENT /\ Len(s) >= 3 /\ IsHex(s[2]) /\ IsHex(s[3])
       THEN <<HexVal(s[2]) * 16 + HexVal(s[3])>> \o PercentDecode(Drop(s, 3))
       ELSE <<s[1]>> \o PercentDecode(Tail(s))

IsCont(s, i) == i <= Len(s) /\ s[i] >= 128 /\ s[i] <= 191

\* The range the second byte of a sequence led by b must lie in.
SecondLow(b) == IF b = 224 THEN 160 ELSE IF b = 240 THEN 144 ELSE 128

SecondHigh(b) == IF b = 237 THEN 159 ELSE IF b = 244 THEN 143 ELSE 191

\* The number of bytes the lead byte b announces; 0 for no lead byte.
SeqWidth(b) ==
  IF b < 128 THEN 1
  ELSE IF b >= 194 /\ b <= 223 THEN 2
  ELSE IF b >= 224 /\ b <= 239 THEN 3
  ELSE IF b >= 240 /\ b <= 244 THEN 4
  ELSE 0

\* How many bytes from position i on are a prefix of a well-formed sequence.
GoodPrefix(s, i) ==
  LET w == SeqWidth(s[i])
      second == i + 1 <= Len(s) /\ s[i + 1] >= SecondLow(s[i]) /\ s[i + 1] <= SecondHigh(s[i])
  IN IF w <= 1 THEN w
     ELSE IF ~second THEN 1
     ELSE IF w = 2 THEN 2
     ELSE IF ~IsCont(s, i + 2) THEN 2
     ELSE IF w = 3 THEN 3
     ELSE IF ~IsCont(s, i + 3) THEN 3
     ELSE 4

\* Whether a whole well-formed sequence starts at position i.
WellFormedAt(s, i) == SeqWidth(s[i]) > 0 /\ GoodPrefix(s, i) = SeqWidth(s[i])

RECURSIVE ValidUtf8From(_, _)
ValidUtf8From(s, i) ==
  IF i > Len(s) THEN TRUE
  ELSE WellFormedAt(s, i) /\ ValidUtf8From(s, i + SeqWidth(s[i]))

\* str::from_utf8 succeeds.
ValidUtf8(s) == ValidUtf8From(s, 1)

REPLACEMENT == <<239, 191, 189>>

RECURSIVE LossyFrom(_, _)
LossyFrom(s, i) ==
  IF i > Len(s) THEN <<>>
  ELSE IF WellFormedAt(s, i)
       THEN SubSeq(s, i, i + SeqWidth(s[i]) - 1) \o LossyFrom(s, i + SeqWidth(s[i]))
       ELSE REPLACEMENT \o LossyFrom(s, i + (IF GoodPrefix(s, i) = 0 THEN 1 ELSE GoodPrefix(s, i)))

\* String::from_utf8_lossy: each ill-formed subsequence becomes U+FFFD.
Utf8Lossy(s) == LossyFrom(s, 1)

(***************************************************************************)
(* Regular expressions (the regex crate)                                   *)
(*                                                                         *)
(* A pattern is a syntax tree:                                             *)
(*   chr  one literal byte, written as it is or after a backslash          *)
(*   lit  a string of literal bytes, written as they are                   *)
(*   any  .            cls  a character class          bol ^     eol $     *)
(*   cat  a sequence   alt  alternatives a|b|...                           *)
(*   rep  x*  x+  x?  and their lazy forms x*?  x+?  x??                   *)
(*   grp  a group, capturing (x) or not (?:x)                              *)
(* Only the first capturing group of a pattern is tracked.                 *)
(***************************************************************************)

Chr(c) == [k |-> "chr", c |-> Ord(c), esc |-> FALSE]

\* A literal written after a backslash, as in \. \/ \- \?
Esc(c) == [k |-> "chr", c |-> Ord(c), esc |-> TRUE]

AnyChar == [k |-> "any"]

Bol == [k |-> "bol"]

Eol == [k |-> "eol"]

Cat(xs) == [k |-> "cat", xs |-> xs]

Alt(xs) == [k |-> "alt", xs |-> xs]

Star(x) == [k |-> "rep", x |-> x, min |-> 0, many |-> TRUE, lazy |-> FALSE]

LazyStar(x) == [k |-> "rep", x |-> x, min |-> 0, many |-> TRUE, lazy |-> TRUE]

Plus(x) == [k |-> "rep", x |-> x, min |-> 1, many |-> TRUE, lazy |-> FALSE]

Opt(x) == [k |-> "rep", x |-> x, min |-> 0, many |-> FALSE, lazy |-> FALSE]

Grp(x) == [k |-> "grp", cap |-> TRUE, x |-> x]

NGrp(x) == [k |-> "grp", cap |-> FALSE, x |-> x]

\* The literal string of the characters t, none of them escaped.
Lit(t) == [k |-> "lit", s |-> S(t)]

\* [a-z0-9-]
DomainClass ==
  [k |-> "cls", neg |-> FALSE,
   set |-> {b \in 0..127 : IsLower(b) \/ IsDigit(b) \/ b = DASH},
   txt |-> S(<<"[", "a", "-", "z", "0", "-", "9", "-", "]">>)]

\* [a-z_]
WordClass ==
  [k |-> "cls", neg |-> FALSE,
   set |-> {b \in 0..127 : IsLower(b) \/ b = Ord("_")},
   txt |-> S(<<"[", "a", "-", "z", "_", "]">>)]

\* [^&#]
ValueClass ==
  [k |-> "cls", neg |-> TRUE,
   set |-> {AMP, HASH},
   txt |-> S(<<"[", "^", "&", "#", "]">>)]

\* [^/?#]
SegmentClass ==
  [k |-> "cls", neg |-> TRUE,
   set |-> {SLASH, QUESTION, HASH},
   txt |-> S(<<"[", "^", "/", "?", "#", "]">>)]

\* The marks of the pattern syntax.
SyntaxDot == S(<<".">>)

SyntaxBol == S(<<"^">>)

SyntaxEol == S(<<"$">>)

SyntaxBar == S(<<"|">>)

SyntaxStar == S(<<"*">>)

SyntaxPlus == S(<<"+">>)

SyntaxOpt == S(<<"?">>)

SyntaxOpen == S(<<"(">>)

SyntaxOpenNoCapture == S(<<"(", "?", ":">>)

SyntaxClose == S(<<")">>)

RECURSIVE PatternText(_)
\* Regex::as_str: the text the pattern was compiled from.
PatternText(re) ==
  CASE re.k = "chr" -> IF re.esc THEN <<BACKSLASH, re.c>> ELSE <<re.c>>
    [] re.k = "lit" -> re.s
    [] re.k = "any" -> SyntaxDot
    [] re.k = "cls" -> re.txt
    [] re.k = "bol" -> SyntaxBol
    [] re.k = "eol" -> SyntaxEol
    [] re.k = "cat" -> Concat([i \in 1..Len(re.xs) |-> PatternText(re.xs[i])])
    [] re.k = "alt" -> Join([i \in 1..Len(re.xs) |-> PatternText(re.xs[i])], SyntaxBar)
    [] re.k = "rep" ->
         PatternText(re.x)
           \o (IF re.many THEN (IF re.min = 0 THEN SyntaxStar ELSE SyntaxPlus) ELSE SyntaxOpt)
           \o (IF re.lazy THEN SyntaxOpt ELSE <<>>)
    [] re.k = "grp" ->
         (IF re.cap THEN SyntaxOpen ELSE SyntaxOpenNoCapture) \o PatternText(re.x) \o SyntaxClose

\* One way to match: the position after the match (0-based offset) and the
\* span <<start, end>> of capture group 1, None while it has not taken part.
Way(e, c) == [e |-> e, c |-> c]

RECURSIVE Walk(_, _, _, _)
RECURSIVE WalkCat(_, _, _, _, _)
RECURSIVE WalkRep(_, _, _, _, _)

\* Whether the one-byte pattern re (chr, any, cls) matches the byte b.
ByteMatches(re, b) ==
  CASE re.k = "chr" -> b = re.c
    [] re.k = "any" -> b # 10
    [] re.k = "cls" -> (b \in re.set) # re.neg

\* Every way the pattern re matches s starting at offset i, in the order the
\* backtracking search of a leftmost-first engine prefers them.
Walk(re, s, i, cap) ==
  CASE re.k \in {"chr", "any", "cls"} ->
         IF i < Len(s) /\ ByteMatches(re, s[i + 1]) THEN <<Way(i + 1, cap)>> ELSE <<>>
    [] re.k = "lit" ->
         IF i + Len(re.s) <= Len(s) /\ SubSeq(s, i + 1, i + Len(re.s)) = re.s THEN <<Way(i + Len(re.s), cap)>> ELSE <<>>
    [] re.k = "bol" -> IF i = 0 THEN <<Way(i, cap)>> ELSE <<>>
    [] re.k = "eol" -> IF i = Len(s) THEN <<Way(i, cap)>> ELSE <<>>
    [] re.k = "cat" -> WalkCat(re.xs, 1, s, i, cap)
    [] re.k = "alt" -> Concat([j \in 1..Len(re.xs) |-> Walk(re.xs[j], s, i, cap)])
    [] re.k = "rep" -> WalkRep(re, s, i, cap, 0)
    [] re.k = "grp" ->
         LET ws == Walk(re.x, s, i, cap)
         IN IF re.cap THEN [j \in 1..Len(ws) |-> Way(ws[j].e, Some(<<i, ws[j].e>>))] ELSE ws

\* The ways of the sequence xs[j..]: those of the rest after each way of xs[j].
WalkCat(xs, j, s, i, cap) ==
  IF j > Len(xs) THEN <<Way(i, cap)>>
  ELSE LET ws == Walk(xs[j], s, i, cap)
       IN Concat([n \in 1..Len(ws) |-> WalkCat(xs, j + 1, s, ws[n].e, ws[n].c)])

\* The ways of a repetition of which n rounds are done: one more round and
\* then on (a round that consumes nothing is taken only below the minimum),
\* or stop here; the greedy form prefers more, the lazy form prefers to stop.
\* The rounds of a one-byte pattern are counted rather than walked.
WalkRep(re, s, i, cap, n) ==
  IF re.x.k \in {"chr", "any", "cls"}
  THEN LET most == IF re.many THEN Len(s) - i ELSE IF i < Len(s) THEN 1 ELSE 0
           run == CHOOSE l \in 0..most :
                    /\ \A j \in 1..l : ByteMatches(re.x, s[i + j])
                    /\ l = most \/ ~ByteMatches(re.x, s[i + l + 1])
           count == run - re.min + 1
       IN IF run < re.min THEN <<>>
          ELSE [j \in 1..count |-> Way(i + (IF re.lazy THEN re.min + j - 1 ELSE run - j + 1), cap)]
  ELSE LET once == SelectSeq(Walk(re.x, s, i, cap), LAMBDA w : w.e > i \/ n < re.min)
           more == IF re.many \/ n < 1
                   THEN Concat([j \in 1..Len(once) |-> WalkRep(re, s, once[j].e, once[j].c, n + 1)])
                   ELSE <<>>
           stop == IF n >= re.min THEN <<Way(i, cap)>> ELSE <<>>
       IN IF re.lazy THEN stop \o more ELSE more \o stop

NoMatch == [found |-> FALSE, start |-> 0, end |-> 0, group |-> None]

\* The match at offset from that the engine prefers among the ways ws, or
\* the match found later when there is no way.
Preferred(ws, from, later) ==
  IF ws # <<>> THEN [found |-> TRUE, start |-> from, end |-> ws[1].e, group |-> ws[1].c]
  ELSE later

RECURSIVE FindAt(_, _, _)
\* The leftmost match starting at offset from or later; among the matches
\* starting there, the one the engine prefers.
FindAt(re, s, from) ==
  IF from > Len(s) THEN NoMatch
  ELSE Preferred(Walk(re, s, from, None), from, FindAt(re, s, from + 1))

\* Regex::find and Regex::captures
Find(re, s) == FindAt(re, s, 0)

\* Regex::is_match
IsMatch(re, s) == Find(re, s).found

\* RegexSet::is_match
SetIsMatch(set, s) == \E i \in 1..Len(set) : IsMatch(set[i], s)

RECURSIVE ReplaceAllFrom(_, _, _)
RECURSIVE ReplaceMatch(_, _, _, _)

\* s from offset pos on, with every match removed.
ReplaceAllFrom(re, s, pos) == ReplaceMatch(re, s, pos, FindAt(re, s, pos))

\* s from offset pos on, without the match m and the matches after it.
\* After an empty match the search moves on by one byte.
ReplaceMatch(re, s, pos, m) ==
  IF ~m.found THEN Drop(s, pos)
  ELSE IF m.end > m.start
       THEN SubSeq(s, pos + 1, m.start) \o ReplaceAllFrom(re, s, m.end)
  ELSE IF m.start >= Len(s) THEN Drop(s, pos)
  ELSE SubSeq(s, pos + 1, m.start + 1) \o ReplaceAllFrom(re, s, m.start + 1)

\* Regex::replace_all(s, "")
ReplaceAll(re, s) == ReplaceAllFrom(re, s, 0)

\* Whether the pattern, anchored at both ends, matches s: s as a whole is in
\* the language of the pattern.
MatchesWhole(re, s) == \E w \in Range(Walk(re, s, 0, None)) : w.e = Len(s)

(***************************************************************************)
(* Results                                                                 *)
(***************************************************************************)

\* Result<T, Error>
Ok(v) == [ok |-> TRUE, err |-> "", val |-> v]

Err(e) == [ok |-> FALSE, err |-> e, val |-> None]

RECURSIVE Show(_)
\* A byte string as text, for reading a state; a byte outside printable ASCII
\* is shown as a tilde.
Show(s) ==
  IF s = <<>> THEN ""
  ELSE (IF s[1] >= 32 /\ s[1] <= 126 /\ s[1] # 96 THEN AsciiChars[s[1] - 31] ELSE "~")
       \o Show(Tail(s))

(***************************************************************************)
(* form_urlencoded (the url crate)                                         *)
(***************************************************************************)

\* form_urlencoded::decode: '+' is a space, then percent-decoding, then a
\* lossy conversion to UTF-8.
FormDecode(s) ==
  Utf8Lossy(PercentDecode([i \in 1..Len(s) |-> IF s[i] = PLUS THEN SPACE ELSE s[i]]))

\* One sequence "name=value" of the input: split at the first '='.
FormPair(seg) ==
  LET i == IndexFrom(seg, <<EQUALS>>, 1)
  IN IF i = 0 THEN <<FormDecode(seg), <<>>>>
     ELSE <<FormDecode(Take(seg, i - 1)), FormDecode(Drop(seg, i))>>

\* form_urlencoded::parse: the pairs of the non-empty sequences between '&'.
FormParse(input) ==
  LET segs == SelectSeq(Split(input, AMP), LAMBDA seg : seg # <<>>)
  IN [i \in 1..Len(segs) |-> FormPair(segs[i])]

UnchangedMarks == {Ord("*"), Ord("-"), Ord("."), Ord("_")}

\* form_urlencoded::byte_serialize leaves these bytes as they are.
ByteSerializedUnchanged(b) == IsLower(b) \/ IsUpper(b) \/ IsDigit(b) \/ b \in UnchangedMarks

\* form_urlencoded::byte_serialize
ByteSerialize(s) ==
  Concat([i \in 1..Len(s) |->
            IF ByteSerializedUnchanged(s[i]) THEN <<s[i]>>
            ELSE IF s[i] = SPACE THEN <<PLUS>>
            ELSE PercentEncodeByte(s[i])])

\* form_urlencoded::Serializer::extend_pairs(..).finish()
FormSerialize(pairs) ==
  Join([i \in 1..Len(pairs) |-> ByteSerialize(pairs[i][1]) \o <<EQUALS>> \o ByteSerialize(pairs[i][2])],
       <<AMP>>)

(***************************************************************************)
(* Url (the url crate).  The model covers http and https URLs whose        *)
(* authority is a plain lower- or upper-case registered name: no userinfo, *)
(* no port, no IP address, no percent escape or non-ASCII byte in the      *)
(* host, and no dot segment in the path.  A text outside this is answered  *)
(* with the error "Unmodelled", which no checked input produces.           *)
(***************************************************************************)

\* The printable bytes the parser percent-encodes in a query of a special
\* scheme, in a fragment (96 is the grave accent) and in a path; it encodes
\* the space, the controls and the bytes from 127 on in all three.
SpecialQuerySet == {Ord("\""), HASH, Ord("<"), Ord(">"), Ord("'")}

FragmentSet == {Ord("\""), Ord("<"), Ord(">"), 96}

PathSet == FragmentSet \cup {HASH, QUESTION, Ord("{"), Ord("}")}

InSpecialQuerySet(b) == b <= 32 \/ b >= 127 \/ b \in SpecialQuerySet

InFragmentSet(b) == b <= 32 \/ b >= 127 \/ b \in FragmentSet

InPathSet(b) == b <= 32 \/ b >= 127 \/ b \in PathSet

\* utf8_percent_encode over one of the three sets.
EncodeQuery(s) ==
  Concat([i \in 1..Len(s) |-> IF InSpecialQuerySet(s[i]) THEN PercentEncodeByte(s[i]) ELSE <<s[i]>>])

EncodeFragment(s) ==
  Concat([i \in 1..Len(s) |-> IF InFragmentSet(s[i]) THEN PercentEncodeByte(s[i]) ELSE <<s[i]>>])

EncodePath(s) ==
  Concat([i \in 1..Len(s) |-> IF InPathSet(s[i]) THEN PercentEncodeByte(s[i]) ELSE <<s[i]>>])

\* The parser drops tabs and newlines wherever they stand.
DropTabNewline(s) == SelectSeq(s, LAMBDA b : b \notin {9, 10, 13})

RECURSIVE TrimStart(_)
TrimStart(s) == IF s # <<>> /\ s[1] <= 32 THEN TrimStart(Tail(s)) ELSE s

RECURSIVE TrimEnd(_)
TrimEnd(s) == IF s # <<>> /\ s[Len(s)] <= 32 THEN TrimEnd(Take(s, Len(s) - 1)) ELSE s

\* The length of the scheme of s: letters, digits, + - . after a first
\* letter, ended by ':'; 0 when s has no scheme.
RECURSIVE SchemeEnd(_, _)
SchemeEnd(s, i) ==
  IF i > Len(s) THEN 0
  ELSE IF s[i] = COLON THEN i - 1
  ELSE IF IsLower(s[i]) \/ IsUpper(s[i])
          \/ (i > 1 /\ (IsDigit(s[i]) \/ s[i] \in {PLUS, DASH, DOT}))
       THEN SchemeEnd(s, i + 1)
  ELSE 0

ToLower(s) == [i \in 1..Len(s) |-> IF IsUpper(s[i]) THEN s[i] + 32 ELSE s[i]]

\* The first position at or after i of a byte of the set cs, or Len(s) + 1.
RECURSIVE FirstOf(_, _, _)
FirstOf(s, cs, i) ==
  IF i > Len(s) \/ s[i] \in cs THEN i ELSE FirstOf(s, cs, i + 1)

RECURSIVE SkipSlashes(_, _)
SkipSlashes(s, i) ==
  IF i <= Len(s) /\ s[i] \in {SLASH, BACKSLASH} THEN SkipSlashes(s, i + 1) ELSE i

\* The printable forbidden host code points.
ForbiddenHostMarks ==
  {HASH, SLASH, COLON, Ord("<"), Ord(">"), QUESTION, Ord("@"), Ord("["), BACKSLASH, Ord("]"),
   Ord("^"), Ord("|"), PERCENT}

\* The forbidden host code points.
ForbiddenHostByte(b) == b <= 32 \/ b = 127 \/ b \in ForbiddenHostMarks

\* What marks userinfo, a port or an IPv6 address in an authority.
AuthorityMarks == {Ord("@"), COLON, Ord("[")}

\* The path segments the parser resolves instead of keeping.
DotSegments ==
  {S(<<".">>), S(<<".", ".">>), S(<<"%", "2", "e">>), S(<<".", "%", "2", "e">>),
   S(<<"%", "2", "e", ".">>), S(<<"%", "2", "e", "%", "2", "e">>)}

SpecialSchemes == {S(<<"h", "t", "t", "p">>), S(<<"h", "t", "t", "p", "s">>)}

SchemeSeparator == S(<<":", "/", "/">>)

\* Whether the authority and path are of the shapes the model covers.
UrlModelled(host, path) ==
  /\ \A i \in 1..Len(host) : host[i] < 128 /\ host[i] \notin AuthorityMarks
  /\ ~HasEscape(host)
  /\ LET labels == SelectSeq(Split(host, DOT), LAMBDA l : l # <<>>)
     IN labels = <<>> \/ \E i \in 1..Len(labels[Len(labels)]) : ~IsDigit(labels[Len(labels)][i])
  /\ LET segs == Split(ToLower(path), SLASH)
     IN \A i \in 1..Len(segs) : segs[i] \notin DotSegments
  /\ BACKSLASH \notin Range(path)

\* Url::from_str
ParseUrl(text) ==
  LET s == DropTabNewline(TrimEnd(TrimStart(text)))
      n == SchemeEnd(s, 1)
      scheme == ToLower(Take(s, n))
      a == SkipSlashes(s, n + 2)
      b == FirstOf(s, {SLASH, BACKSLASH, QUESTION, HASH}, a)
      c == FirstOf(s, {QUESTION, HASH}, b)
      d == FirstOf(s, {HASH}, c)
      host == SubSeq(s, a, b - 1)
      path == SubSeq(s, b, c - 1)
  IN IF n = 0 THEN Err("InvalidUrl")
     ELSE IF scheme \notin SpecialSchemes THEN Err("Unmodelled")
     ELSE IF ~UrlModelled(host, path) THEN Err("Unmodelled")
     ELSE IF host = <<>> \/ \E i \in 1..Len(host) : ForbiddenHostByte(host[i])
          THEN Err("InvalidUrl")
     ELSE Ok([scheme |-> scheme,
              host |-> ToLower(host),
              path |-> IF path = <<>> THEN <<SLASH>> ELSE EncodePath(path),
              query |-> IF c <= Len(s) /\ s[c] = QUESTION
                        THEN Some(EncodeQuery(SubSeq(s, c + 1, d - 1))) ELSE None,
              fragment |-> IF d <= Len(s) THEN Some(EncodeFragment(Drop(s, d))) ELSE None])

\* Url::as_str
AsStr(u) ==
  u.scheme \o SchemeSeparator \o u.host \o u.path
    \o (IF u.query = None THEN <<>> ELSE <<QUESTION>> \o u.query[1])
    \o (IF u.fragment = None THEN <<>> ELSE <<HASH>> \o u.fragment[1])

\* Url::set_query
SetQuery(u, query) ==
  [u EXCEPT !.query = IF query = None THEN None ELSE Some(EncodeQuery(DropTabNewline(query[1])))]

\* Url::set_fragment
SetFragment(u, fragment) ==
  [u EXCEPT !.fragment =
     IF fragment = None THEN None ELSE Some(EncodeFragment(DropTabNewline(fragment[1])))]

\* Url::query_pairs
QueryPairs(u) == FormParse(IF u.query = None THEN <<>> ELSE u.query[1])

(***************************************************************************)
(* src/rules.rs                                                            *)
(*                                                                         *)
(* A Provider is a record of patterns: url_pattern, and the sequences      *)
(* rules, raw_rules, referral_marketing, exceptions and redirections.      *)
(***************************************************************************)

Provider(url_pattern, rules, raw_rules, referral_marketing, exceptions, redirections) ==
  [url_pattern |-> url_pattern, rules |-> rules, raw_rules |-> raw_rules,
   referral_marketing |-> referral_marketing, exceptions |-> exceptions,
   redirections |-> redirections]

\* is_allowed_domain_char
is_allowed_domain_char(c) == IsLower(c) \/ IsDigit(c) \/ c = DASH

RECURSIVE TakeWhileLabel(_)
\* take_while(|s| !s.is_empty() && s.chars().all(is_allowed_domain_char))
TakeWhileLabel(ls) ==
  IF ls = <<>> THEN <<>>
  ELSE IF ls[1] # <<>> /\ \A i \in 1..Len(ls[1]) : is_allowed_domain_char(ls[1][i])
       THEN <<ls[1]>> \o TakeWhileLabel(Tail(ls))
  ELSE <<>>

\* key_iter: the pieces of s that end with the delimiter, without it, up to
\* the first that is empty or holds a disallowed character.
key_iter(s, delimiter) ==
  LET pieces == SelectSeq(SplitInclusive(s, delimiter), LAMBDA x : EndsWith(x, delimiter))
  IN TakeWhileLabel([i \in 1..Len(pieces) |-> Take(pieces[i], Len(pieces[i]) - Len(delimiter))])

HttpPrefix == S(<<"h", "t", "t", "p">>)

HttpScheme == S(<<"h", "t", "t", "p", ":", "/", "/">>)

LOWER_S == Ord("s")

\* The delimiters of key_iter: "." in a URL, "\." in a pattern.
UrlDelimiter == S(<<".">>)

PatternDelimiter == S(<<"\\", ".">>)

EscapedSlash == S(<<"\\", "/">>)

EscapedDash == S(<<"\\", "-">>)

\* keys_from_url
keys_from_url(u) ==
  LET s1 == Drop(u, Len(HttpPrefix))
      s2 == IF s1 # <<>> /\ s1[1] = LOWER_S THEN Tail(s1) ELSE s1
  IN IF StartsWith(u, HttpPrefix) /\ StartsWith(s2, SchemeSeparator)
     THEN key_iter(Drop(s2, Len(SchemeSeparator)), UrlDelimiter)
     ELSE <<>>

\* ^https?://(?:[a-z0-9-]+\.)*?
KeyPrefix ==
  S(<<"^", "h", "t", "t", "p", "s", "?", ":", "/", "/", "(", "?", ":", "[", "a", "-", "z",
      "0", "-", "9", "-", "]", "+", "\\", ".", ")", "*", "?">>)

\* get_key when the pattern text keeps its escaped dashes.
GetKeyKeepingEscapedDash(p) ==
  LET text == Replace(PatternText(p.url_pattern), EscapedSlash, <<SLASH>>)
      labels == key_iter(Drop(text, Len(KeyPrefix)), PatternDelimiter)
  IN IF StartsWith(text, KeyPrefix) /\ labels # <<>> THEN Some(labels[1]) ELSE None

\* Provider::get_key
get_key(p) ==
  LET text == Replace(Replace(PatternText(p.url_pattern), EscapedSlash, <<SLASH>>),
                      EscapedDash, <<DASH>>)
      labels == key_iter(Drop(text, Len(KeyPrefix)), PatternDelimiter)
  IN IF StartsWith(text, KeyPrefix) /\ labels # <<>> THEN Some(labels[1]) ELSE None

JavascriptVoid ==
  S(<<"j", "a", "v", "a", "s", "c", "r", "i", "p", "t", ":", "v", "o", "i", "d", "(", "0", ")">>)

\* match_exception when only the exception patterns are consulted.
MatchExceptionPatternsOnly(p, u) == SetIsMatch(p.exceptions, u)

\* Provider::match_exception
match_exception(p, u) == u = JavascriptVoid \/ SetIsMatch(p.exceptions, u)

\* Provider::match_url
match_url(p, u) == IsMatch(p.url_pattern, u) /\ ~match_exception(p, u)

\* A round of the loop of get_redirection that passes over a match without a
\* first group instead of failing.
CapturedSkippingGroupless(c, u, later) ==
  IF c.found /\ c.group # None
  THEN Ok(Some(SubSeq(u, c.group[1][1] + 1, c.group[1][2])))
  ELSE later

\* One round of the loop of get_redirection: the pattern found the captures
\* c in url, or it found nothing and the loop goes on to later.
Captured(c, u, later) ==
  IF c.found
  THEN IF c.group = None THEN Err("RedirectionHasNoCapturingGroup")
       ELSE Ok(Some(SubSeq(u, c.group[1][1] + 1, c.group[1][2])))
  ELSE later

RECURSIVE RedirectionFrom(_, _, _)
\* The loop of get_redirection from the i-th pattern on.
RedirectionFrom(rs, u, i) ==
  IF i > Len(rs) THEN Ok(None)
  ELSE Captured(Find(rs[i], u), u, RedirectionFrom(rs, u, i + 1))

\* Provider::get_redirection
get_redirection(p, u) == RedirectionFrom(p.redirections, u, 1)

\* get_rules when the flag is ignored and both lists always apply.
GetRulesIgnoringFlag(p, strip) == p.rules \o p.referral_marketing

\* Provider::get_rules
get_rules(p, strip) == IF strip THEN p.rules \o p.referral_marketing ELSE p.rules

\* is_full_match
is_full_match(regex, haystack) ==
  \E m \in {Find(regex, haystack)} : m.found /\ m.end - m.start = Len(haystack)

\* serialize_params without the arm for a single pair with an empty value.
SerializeParamsFormOnly(params) ==
  LET ret == IF params = <<>> THEN <<>> ELSE FormSerialize(params)
  IN IF ret = <<>> THEN None ELSE Some(ret)

\* serialize_params
serialize_params(params) ==
  LET ret == IF params = <<>> THEN <<>>
             ELSE IF Len(params) = 1 /\ params[1][2] = <<>> THEN params[1][1]
             ELSE FormSerialize(params)
  IN IF ret = <<>> THEN None ELSE Some(ret)

\* A pass of the loop of repeatedly_urldecode that never takes the arm that
\* returns.
DecodedNeverReturning(b, after) ==
  IF ~ValidUtf8(after) THEN [step |-> "error", s |-> <<>>]
  ELSE [step |-> "again", s |-> after]

\* One pass of the loop of repeatedly_urldecode over the string b (before),
\* of which after is the percent-decoded form: "error" (the decoded bytes are
\* not UTF-8), "return" with the value returned (nothing was decoded), or
\* "again" with the string of the next pass.
Decoded(b, after) ==
  IF ~ValidUtf8(after) THEN [step |-> "error", s |-> <<>>]
  ELSE IF ~HasEscape(b)
       THEN [step |-> "return",
             s |-> IF StartsWith(after, HttpPrefix) THEN b ELSE HttpScheme \o after]
  ELSE [step |-> "again", s |-> after]

DecodePass(b) == Decoded(b, PercentDecode(b))

RECURSIVE repeatedly_urldecode(_)
RECURSIVE DecodeLoop(_)

\* The loop of repeatedly_urldecode after the pass r.
DecodeLoop(r) ==
  IF r.step = "error" THEN Err("DecodeError")
  ELSE IF r.step = "return" THEN Ok(r.s)
  ELSE repeatedly_urldecode(r.s)

repeatedly_urldecode(s) == DecodeLoop(DecodePass(s))

RECURSIVE ApplyRawRules(_, _, _)
\* The raw_rules loop: each pattern removes its matches from the text the
\* previous one left.
ApplyRawRules(rs, i, text) ==
  IF i > Len(rs) THEN text ELSE ApplyRawRules(rs, i + 1, ReplaceAll(rs[i], text))

RECURSIVE Retain(_, _, _)
\* The retain loop: each pattern removes the pairs whose key it fully matches.
Retain(rs, i, pairs) ==
  IF i > Len(rs) THEN pairs
  ELSE Retain(rs, i + 1, SelectSeq(pairs, LAMBDA kv : ~is_full_match(rs[i], kv[1])))

\* Option::unwrap_or("")
UnwrapOrEmpty(o) == IF o = None THEN <<>> ELSE o[1]

\* The two retain loops over the pairs of the parsed URL.
Retained(rules, parsed) ==
  IF ~parsed.ok THEN parsed
  ELSE Ok([url |-> parsed.val,
           fields |-> Retain(rules, 1, QueryPairs(parsed.val)),
           fragments |-> Retain(rules, 1, FormParse(UnwrapOrEmpty(parsed.val.fragment)))])

\* The part of remove_fields_from_url after the redirection check, up to the
\* two retain loops: the parsed URL and the surviving pairs.
Stripped(p, u, strip) ==
  Retained(get_rules(p, strip), ParseUrl(ApplyRawRules(p.raw_rules, 1, AsStr(u))))

\* The end of remove_fields_from_url: the survivors are serialized and set.
Reserialized(st) ==
  IF ~st.ok THEN st
  ELSE Ok(SetFragment(SetQuery(st.val.url, serialize_params(st.val.fields)),
                      serialize_params(st.val.fragments)))

\* The redirection branch after repeatedly_urldecode.
Redirected(decoded) == IF ~decoded.ok THEN decoded ELSE ParseUrl(decoded.val)

\* remove_fields_from_url when a redirection found is not followed and the
\* parameters are stripped all the same.
ReturnedWithoutShortCircuit(redirect, st) ==
  IF ~redirect.ok THEN redirect ELSE Reserialized(st)

\* What remove_fields_from_url returns when get_redirection gave redirect
\* and the stripping, where it is reached, gave st.
Returned(redirect, st) ==
  IF ~redirect.ok THEN redirect
  ELSE IF redirect.val # None THEN Redirected(repeatedly_urldecode(redirect.val[1]))
  ELSE Reserialized(st)

\* Provider::remove_fields_from_url
remove_fields_from_url(p, u, strip) ==
  Returned(get_redirection(p, AsStr(u)), Stripped(p, u, strip))

(***************************************************************************)
(* The field stripper and the redirection resolver: inputs                 *)
(***************************************************************************)

\* The most query sequences ("name=value" between '&') of an input URL.
MaxPairs == 2

\* utm_.*
RuleUtm == Cat(<<Lit(<<"u", "t", "m", "_">>), Star(AnyChar)>>)

\* id
RuleId == Lit(<<"i", "d">>)

\* v|vid
RuleVid == Alt(<<Lit(<<"v">>), Lit(<<"v", "i", "d">>)>>)

\* ref
RuleRef == Lit(<<"r", "e", "f">>)

\* &?ref=[^&#]*
RawRef == Cat(<<Opt(Chr("&")), Lit(<<"r", "e", "f", "=">>), Star(ValueClass)>>)

\* ^https?:\/\/e\.io\/go\?u=([^/?#]*)
RedirectGo ==
  Cat(<<Bol, Lit(<<"h", "t", "t", "p">>), Opt(Chr("s")), Lit(<<":">>), Esc("/"), Esc("/"),
        Lit(<<"e">>), Esc("."), Lit(<<"i", "o">>), Esc("/"), Lit(<<"g", "o">>), Esc("?"),
        Lit(<<"u", "=">>), Grp(Star(SegmentClass))>>)

\* \/nowhere
RedirectNowhere == Cat(<<Esc("/"), Lit(<<"n", "o", "w", "h", "e", "r", "e">>)>>)

\* u=(.*)
RedirectAll == Cat(<<Lit(<<"u", "=">>), Grp(Star(AnyChar))>>)

\* \/go\?
RedirectNoGroup == Cat(<<Esc("/"), Lit(<<"g", "o">>), Esc("?")>>)

\* \/go\?(v=)?
RedirectUnsetGroup ==
  Cat(<<Esc("/"), Lit(<<"g", "o">>), Esc("?"), Opt(Grp(Lit(<<"v", "=">>)))>>)

\* u=([a-z_]*)
RedirectWord == Cat(<<Lit(<<"u", "=">>), Grp(Star(WordClass))>>)

\* The providers the field stripper is run with.
Providers ==
  <<Provider(AnyChar, <<RuleUtm, RuleId>>, <<>>, <<RuleRef>>, <<>>, <<>>),
    Provider(AnyChar, <<RuleVid>>, <<>>, <<RuleRef, RuleUtm>>, <<>>, <<>>),
    Provider(AnyChar, <<RuleUtm>>, <<RawRef>>, <<>>, <<>>, <<>>),
    Provider(AnyChar, <<RuleUtm>>, <<RawRef>>, <<RuleRef>>, <<>>, <<RedirectGo>>),
    Provider(AnyChar, <<RuleUtm>>, <<>>, <<>>, <<>>, <<RedirectNowhere, RedirectAll>>),
    Provider(AnyChar, <<>>, <<>>, <<>>, <<>>, <<RedirectNoGroup, RedirectAll>>),
    Provider(AnyChar, <<>>, <<>>, <<>>, <<>>, <<RedirectUnsetGroup, RedirectAll>>),
    Provider(AnyChar, <<RuleId>>, <<>>, <<>>, <<>>, <<RedirectWord, RedirectAll>>)>>

UrlBase == S(<<"h", "t", "t", "p", "s", ":", "/", "/", "e", ".", "i", "o", "/">>)

\* The query sequences an input URL is put together from.
QuerySegments ==
  <<S(<<"a", "=", "1">>),
    S(<<"u", "t", "m", "_", "i", "d", "=", "y">>),
    S(<<"v", "i", "d", "=">>),
    S(<<"m">>),
    S(<<"r", "e", "f", "=", "x">>),
    S(<<"a", "%", "2", "6", "b">>),
    S(<<"=">>)>>

\* The fragments of the input URLs; the first stands for no fragment.
Fragments ==
  <<<<>>,
    S(<<"#", "f", "r", "a", "g">>),
    S(<<"#", "u", "t", "m", "_", "i", "d", "=", "y">>),
    S(<<"#", "r", "e", "f">>)>>

\* The redirection targets, as they stand in the wrapper's query.
Targets ==
  <<S(<<"h", "t", "t", "p", "s", "%", "3", "A", "%", "2", "F", "%", "2", "F", "r", ".", "i", "o",
        "%", "2", "F", "%", "3", "F", "u", "t", "m", "_", "i", "d", "%", "3", "D", "y">>),
    S(<<"r", ".", "i", "o", "%", "2", "F", "p">>),
    S(<<"r", ".", "i", "o", "%", "2", "5", "2", "F", "p">>),
    S(<<"r", "%", "F", "F">>),
    S(<<"h", "t", "t", "p", "b", "i", "n">>),
    <<>>>>

\* The sequences of at most n elements of 1..k.
RECURSIVE SeqsUpTo(_, _)
SeqsUpTo(k, n) ==
  IF n = 0 THEN {<<>>}
  ELSE LET shorter == SeqsUpTo(k, n - 1)
       IN shorter \cup {Append(q, i) : q \in shorter, i \in 1..k}

\* The texts of the input URLs: the base with up to MaxPairs query sequences
\* and a fragment, and the redirection wrappers.
UrlTexts ==
  {UrlBase
     \o (IF q = <<>> THEN <<>>
         ELSE <<QUESTION>> \o Join([i \in 1..Len(q) |-> QuerySegments[q[i]]], <<AMP>>))
     \o Fragments[f] :
       q \in SeqsUpTo(Len(QuerySegments), MaxPairs), f \in 1..Len(Fragments)}
  \cup {UrlBase \o S(<<"g", "o", "?", "u", "=">>) \o Targets[i] : i \in 1..Len(Targets)}

\* A string as a state holds it: its text for the reader, and its bytes.
Str(s) == [str |-> Show(s), bytes |-> s]

\* A Result<Url, Error> as a state holds it.
UrlResult(r) ==
  [ok |-> r.ok, err |-> r.err, url |-> IF r.ok THEN Str(AsStr(r.val)) ELSE Str(<<>>)]

\* A provider as a state holds it: its place among the providers, and the
\* texts of its patterns for the reader.
ProviderView(ps, i) ==
  LET texts(rs) == [j \in 1..Len(rs) |-> Show(PatternText(rs[j]))]
  IN [id |-> i,
      url_pattern |-> Show(PatternText(ps[i].url_pattern)),
      rules |-> texts(ps[i].rules),
      raw_rules |-> texts(ps[i].raw_rules),
      referral_marketing |-> texts(ps[i].referral_marketing),
      exceptions |-> texts(ps[i].exceptions),
      redirections |-> texts(ps[i].redirections)]

\* The pairs of a sequence as a state holds them.
PairsView(pairs) == [i \in 1..Len(pairs) |-> <<Str(pairs[i][1]), Str(pairs[i][2])>>]

OptionView(o) == IF o = None THEN None ELSE Some(Str(o[1]))

(***************************************************************************)
(* The field stripper and the redirection resolver: specification          *)
(***************************************************************************)

Init ==
  /\ provider \in {ProviderView(Providers, i) : i \in 1..Len(Providers)}
  /\ url \in {Str(AsStr(r.val)) : r \in {x \in {ParseUrl(text) : text \in UrlTexts} : x.ok}}
  /\ strip_referral_marketing \in BOOLEAN
  /\ pc = "start"
  /\ out = None
  /\ before = None

\* A Result<Option<&str>, Error> as a state holds it.
RedirectionView(r) == [ok |-> r.ok, err |-> r.err, target |-> OptionView(r.val)]

\* What a call of remove_fields_from_url leaves in the state: what
\* get_redirection gave, what the call returned and, when it got as far as the
\* retain loops, the pairs before them, the surviving pairs and the serial
\* forms of the survivors.
Removal(redirect, st, result) ==
  IF redirect.ok /\ redirect.val = None /\ st.ok
  THEN [redirect |-> RedirectionView(redirect),
        result |-> UrlResult(result),
        stripped |-> TRUE,
        pairs |-> PairsView(QueryPairs(st.val.url)),
        fragment_pairs |-> PairsView(FormParse(UnwrapOrEmpty(st.val.url.fragment))),
        fields |-> PairsView(st.val.fields),
        fragments |-> PairsView(st.val.fragments),
        query |-> OptionView(serialize_params(st.val.fields)),
        fragment |-> OptionView(serialize_params(st.val.fragments))]
  ELSE [redirect |-> RedirectionView(redirect),
        result |-> UrlResult(result),
        stripped |-> FALSE,
        pairs |-> <<>>, fragment_pairs |-> <<>>, fields |-> <<>>, fragments |-> <<>>,
        query |-> None, fragment |-> None]

\* A call of Provider::remove_fields_from_url.
RemoveFieldsFromUrl ==
  /\ pc = "start"
  /\ \E p \in {Providers[provider.id]}, u \in {ParseUrl(url.bytes).val} :
       \E redirect \in {get_redirection(p, AsStr(u))},
          st \in {Stripped(p, u, strip_referral_marketing)} :
         out' = Removal(redirect, st, Returned(redirect, st))
  /\ pc' = "removed"
  /\ UNCHANGED <<provider, url, strip_referral_marketing, before>>

\* A second call, on the URL the first call returned.
RemoveFieldsAgain ==
  /\ pc = "removed"
  /\ out.result.ok
  /\ \E p \in {Providers[provider.id]}, u \in {ParseUrl(out.result.url.bytes).val} :
       out' = [first |-> out.result,
               second |-> UrlResult(remove_fields_from_url(p, u, strip_referral_marketing))]
  /\ pc' = "removed_again"
  /\ UNCHANGED <<provider, url, strip_referral_marketing, before>>

\* A call of Provider::get_redirection.
GetRedirection ==
  /\ pc = "start"
  /\ \E r \in {get_redirection(Providers[provider.id], url.bytes)} :
       out' = RedirectionView(r)
  /\ pc' = "redirection"
  /\ UNCHANGED <<provider, url, strip_referral_marketing, before>>

Next == RemoveFieldsFromUrl \/ RemoveFieldsAgain \/ GetRedirection

Spec == Init /\ [][Next]_vars

\* No input leaves the part of Url the model covers.
Modelled ==
  /\ pc = "removed" => out.result.err # "Unmodelled"
  /\ pc = "removed_again" => out.second.err # "Unmodelled"

(***************************************************************************)
(* The field stripper and the redirection resolver: properties             *)
(***************************************************************************)

\* The pairs of a state as pairs of byte strings.
PairsBytes(pairs) == [i \in 1..Len(pairs) |-> <<pairs[i][1].bytes, pairs[i][2].bytes>>]

\* C1: a second call of remove_fields_from_url, on the URL the first call
\* returned and with the same provider and flag, returns that URL again.
C1_Idempotent ==
  pc = "removed_again" => (out.second.ok /\ out.second.url = out.first.url)

RECURSIVE FixedPoint(_)
\* s percent-decoded until a pass changes nothing.
FixedPoint(s) == IF PercentDecode(s) = s THEN s ELSE FixedPoint(PercentDecode(s))

RECURSIVE EveryPassUtf8(_)
\* Every pass on the way to the fixed point gives UTF-8.
EveryPassUtf8(s) ==
  /\ ValidUtf8(PercentDecode(s))
  /\ PercentDecode(s) = s \/ EveryPassUtf8(PercentDecode(s))

\* "http://" before s unless s starts with "http".
WithScheme(s) == IF StartsWith(s, HttpPrefix) THEN s ELSE HttpScheme \o s

\* C3: when get_redirection gives the capture-group text of a matching
\* redirection pattern, remove_fields_from_url returns what parsing gives of
\* that text percent-decoded to a fixed point, with "http://" before it unless
\* it starts with "http": no rule of the provider has a part in the result,
\* whatever the flag.  (A pass that gives no UTF-8 is the error DecodeError.)
C3_RedirectionShortCircuit ==
  (pc = "removed" /\ out.redirect.ok /\ out.redirect.target # None) =>
    \E t \in {out.redirect.target[1].bytes} :
      IF EveryPassUtf8(t)
      THEN out.result = UrlResult(ParseUrl(WithScheme(FixedPoint(t))))
      ELSE ~out.result.ok /\ out.result.err = "DecodeError"

\* C3's case: a wrapper whose target holds a field the provider's rules
\* remove, resolved with the flag set; the field is still there.
C3_Witness ==
  /\ pc = "removed"
  /\ strip_referral_marketing
  /\ "utm_.*" \in Range(provider.rules)
  /\ out.redirect.target # None
  /\ out.result.ok
  /\ out.result.url.str = "https://r.io/?utm_id=y"

\* Whether some pattern of rs, anchored at both ends, matches the key.
FullyMatched(rs, key) == \E i \in 1..Len(rs) : MatchesWhole(rs[i], key)

\* The rules in effect in the state: rules, and referral_marketing with them
\* when the flag is set.
EffectiveRules ==
  IF strip_referral_marketing
  THEN Providers[provider.id].rules \o Providers[provider.id].referral_marketing
  ELSE Providers[provider.id].rules

\* C4: when no redirection applies, the pairs remove_fields_from_url removes
\* from the query and from the fragment are exactly those whose key some
\* pattern in effect matches over its entire length.
C4_FullMatchRemoval ==
  (pc = "removed" /\ out.stripped) =>
    /\ out.fields
         = SelectSeq(out.pairs, LAMBDA kv : ~FullyMatched(EffectiveRules, kv[1].bytes))
    /\ out.fragments
         = SelectSeq(out.fragment_pairs, LAMBDA kv : ~FullyMatched(EffectiveRules, kv[1].bytes))

\* The serial form of the surviving pairs: none for no pair and for the one
\* pair of an empty key and an empty value, the bare key for one pair with an
\* empty value, the form-encoded serialization of the pairs otherwise.
SerialForm(pairs) ==
  IF pairs = <<>> THEN None
  ELSE IF Len(pairs) = 1 /\ pairs[1][2].bytes = <<>>
       THEN IF pairs[1][1].bytes = <<>> THEN None ELSE Some(pairs[1][1])
  ELSE Some(Str(FormSerialize(PairsBytes(pairs))))

\* The serial form as the three cases are worded: the bare key for every one
\* pair with an empty value.
SerialFormAsWorded(pairs) ==
  IF pairs = <<>> THEN None
  ELSE IF Len(pairs) = 1 /\ pairs[1][2].bytes = <<>> THEN Some(pairs[1][1])
  ELSE Some(Str(FormSerialize(PairsBytes(pairs))))

\* The text of a URL before its fragment.
BeforeFragment(s) == Take(s, FirstOf(s, {HASH}, 1) - 1)

\* C6 (amended): the surviving query pairs and the surviving fragment pairs
\* are each serialized so: no pair gives an absent component; one pair with
\* an empty value gives the bare key without '=' and, when the key is empty
\* too, an absent component; every other sequence gives the form-encoded
\* serialization of all pairs in their order.  The returned URL has a '?' or
\* a '#' exactly when the component is not absent.
C6_Reserialization ==
  (pc = "removed" /\ out.stripped) =>
    /\ out.query = SerialForm(out.fields)
    /\ out.fragment = SerialForm(out.fragments)
    /\ out.result.ok
    /\ (out.query = None) <=> (QUESTION \notin Range(BeforeFragment(out.result.url.bytes)))
    /\ (out.fragment = None) <=> (HASH \notin Range(out.result.url.bytes))

\* C6's case: one surviving query pair with an empty value, serialized as the
\* bare key.
C6_Witness ==
  /\ pc = "removed"
  /\ out.stripped
  /\ Len(out.fields) = 1
  /\ out.fields[1][1].str = "m"
  /\ out.fields[1][2].bytes = <<>>
  /\ out.query = Some(Str(<<109>>))
  /\ out.result.url.str = "https://e.io/?m"

\* C6 as worded: one surviving pair with an empty value always gives the
\* bare key.
C6_AsWorded ==
  (pc = "removed" /\ out.stripped) =>
    /\ out.query = SerialFormAsWorded(out.fields)
    /\ out.fragment = SerialFormAsWorded(out.fragments)

\* The pairs no pattern of rs fully matches (is_full_match) the key of.
Kept(rs, pairs) ==
  SelectSeq(pairs, LAMBDA kv : \A i \in 1..Len(rs) : ~is_full_match(rs[i], kv[1].bytes))

\* C7: without the flag the survivors are the pairs no pattern of rules
\* fully matches, so a pair only referral_marketing patterns match stays;
\* with the flag the survivors are the pairs no pattern of rules or of
\* referral_marketing fully matches.
C7_ReferralMarketingMode ==
  (pc = "removed" /\ out.stripped) =>
    \E p \in {Providers[provider.id]} :
      IF strip_referral_marketing
      THEN /\ out.fields = Kept(p.rules \o p.referral_marketing, out.pairs)
           /\ out.fragments = Kept(p.rules \o p.referral_marketing, out.fragment_pairs)
      ELSE /\ out.fields = Kept(p.rules, out.pairs)
           /\ out.fragments = Kept(p.rules, out.fragment_pairs)

\* C7's case: without the flag, a pair whose key only a referral_marketing
\* pattern matches is among the survivors.
C7_Witness ==
  /\ pc = "removed"
  /\ ~strip_referral_marketing
  /\ out.stripped
  /\ "ref" \in Range(provider.referral_marketing)
  /\ "ref" \notin Range(provider.rules)
  /\ \E i \in 1..Len(out.fields) : out.fields[i][1].str = "ref"

\* The places of the redirection patterns that match the URL.
Matching(rs, u) == {j \in 1..Len(rs) : IsMatch(rs[j], u)}

\* The least element of a non-empty set of numbers.
Least(js) == CHOOSE j \in js : \A k \in js : j <= k

\* What get_redirection is to give when the first matching pattern is re.
FirstMatchOutcome(c, u) ==
  IF c.group = None
  THEN [ok |-> FALSE, err |-> "RedirectionHasNoCapturingGroup", target |-> None]
  ELSE [ok |-> TRUE, err |-> "", target |-> Some(Str(SubSeq(u, c.group[1][1] + 1, c.group[1][2])))]

\* C9: the outcome of get_redirection is that of the first pattern, in the
\* declared order, that matches the URL: the text of its capture group 1, or
\* the error RedirectionHasNoCapturingGroup when the match gives no group 1;
\* it is None exactly when no pattern matches.
C9_FirstMatchDecides ==
  pc = "redirection" =>
    \E rs \in {Providers[provider.id].redirections} :
      \E hits \in {Matching(rs, url.bytes)} :
        IF hits = {} THEN out = [ok |-> TRUE, err |-> "", target |-> None]
        ELSE /\ out = FirstMatchOutcome(Find(rs[Least(hits)], url.bytes), url.bytes)
             /\ ~(out.ok /\ out.target = None)

\* C9's case: the first pattern has no capture group and does not match, the
\* second matches, and its group is returned.
C9_Witness ==
  /\ pc = "redirection"
  /\ provider.redirections = <<"\\/nowhere", "u=(.*)">>
  /\ out.ok
  /\ out.target # None
  /\ out.target[1].str = "r.io%2Fp"

(***************************************************************************)
(* The provider matcher and the domain-key index: inputs                   *)
(***************************************************************************)

\* The most labels of the host of an input URL.
MaxLabels == 2

\* ^https?:\/\/(?:[a-z0-9-]+\.)*?  as the parts of a sequence
KeyPrefixParts ==
  <<Bol, Lit(<<"h", "t", "t", "p">>), Opt(Chr("s")), Lit(<<":">>), Esc("/"), Esc("/"),
    LazyStar(NGrp(Cat(<<Plus(DomainClass), Esc(".")>>)))>>

\* The pattern of the prefix followed by the parts xs.
AfterKeyPrefix(xs) == Cat(KeyPrefixParts \o xs)

\* a\.c\/x
ExceptionPath == Cat(<<Lit(<<"a">>), Esc("."), Lit(<<"c">>), Esc("/"), Lit(<<"x">>)>>)

\* The providers the matcher and the key index are run with; the comment
\* gives what follows the prefix in url_pattern.
KeyProviders ==
  <<\* a\.c  with the exception a\.c\/x
    Provider(AfterKeyPrefix(<<Lit(<<"a">>), Esc("."), Lit(<<"c">>)>>),
             <<>>, <<>>, <<>>, <<ExceptionPath>>, <<>>),
    \* a\.?b
    Provider(AfterKeyPrefix(<<Lit(<<"a">>), Opt(Esc(".")), Lit(<<"b">>)>>),
             <<>>, <<>>, <<>>, <<>>, <<>>),
    \* a\.b\.c
    Provider(AfterKeyPrefix(<<Lit(<<"a">>), Esc("."), Lit(<<"b">>), Esc("."), Lit(<<"c">>)>>),
             <<>>, <<>>, <<>>, <<>>, <<>>),
    \* ab
    Provider(AfterKeyPrefix(<<Lit(<<"a", "b">>)>>), <<>>, <<>>, <<>>, <<>>, <<>>),
    \* a\.c  without the prefix
    Provider(Cat(<<Lit(<<"a">>), Esc("."), Lit(<<"c">>)>>), <<>>, <<>>, <<>>, <<>>, <<>>),
    \* a\-b\.c
    Provider(AfterKeyPrefix(<<Lit(<<"a">>), Esc("-"), Lit(<<"b">>), Esc("."), Lit(<<"c">>)>>),
             <<>>, <<>>, <<>>, <<>>, <<>>),
    \* void  without the prefix
    Provider(Lit(<<"v", "o", "i", "d">>), <<>>, <<>>, <<>>, <<>>, <<>>),
    \* \.c
    Provider(AfterKeyPrefix(<<Esc("."), Lit(<<"c">>)>>), <<>>, <<>>, <<>>, <<>>, <<>>),
    \* a\.c|ab  (the prefix belongs to the first alternative)
    Provider(Alt(<<AfterKeyPrefix(<<Lit(<<"a">>), Esc("."), Lit(<<"c">>)>>), Lit(<<"a", "b">>)>>),
             <<>>, <<>>, <<>>, <<>>, <<>>),
    \* (?:a|c)\.c
    Provider(AfterKeyPrefix(<<NGrp(Alt(<<Lit(<<"a">>), Lit(<<"c">>)>>)), Esc("."), Lit(<<"c">>)>>),
             <<>>, <<>>, <<>>, <<>>, <<>>)>>

\* The schemes, host labels and endings the input URLs are put together from.
Schemes ==
  <<S(<<"h", "t", "t", "p", ":", "/", "/">>),
    S(<<"h", "t", "t", "p", "s", ":", "/", "/">>),
    S(<<"f", "t", "p", ":", "/", "/">>)>>

Labels == <<S(<<"a">>), S(<<"a", "b">>), S(<<"c">>), S(<<"a", "-", "b">>)>>

Endings == <<<<>>, S(<<"/">>), S(<<"/", "x">>)>>

\* The texts of the input URLs: a scheme, a host of up to MaxLabels labels
\* and an ending; and the literal that match_exception names.
KeyUrlTexts ==
  {Schemes[c] \o Join([i \in 1..Len(h) |-> Labels[h[i]]], <<DOT>>) \o Endings[e] :
     c \in 1..Len(Schemes), h \in SeqsUpTo(Len(Labels), MaxLabels), e \in 1..Len(Endings)}
  \cup {JavascriptVoid}

(***************************************************************************)
(* The provider matcher and the domain-key index: specification            *)
(* The key of a provider is computed, then the keys of a URL, and then     *)
(* the URL is matched, the way the caller of the index goes about it.      *)
(***************************************************************************)

KeyInit ==
  /\ provider \in {ProviderView(KeyProviders, i) : i \in 1..Len(KeyProviders)}
  /\ url \in {Str(text) : text \in KeyUrlTexts}
  /\ strip_referral_marketing = FALSE
  /\ pc = "start"
  /\ out = None
  /\ before = None

\* A call of Provider::get_key.
GetKey ==
  /\ pc = "start"
  /\ out' = [key |-> OptionView(get_key(KeyProviders[provider.id]))]
  /\ pc' = "key"
  /\ UNCHANGED <<provider, url, strip_referral_marketing, before>>

\* A call of keys_from_url.
KeysFromUrl ==
  /\ pc = "key"
  /\ \E keys \in {keys_from_url(url.bytes)} :
       out' = [key |-> out.key, keys |-> [i \in 1..Len(keys) |-> Str(keys[i])]]
  /\ pc' = "keys"
  /\ UNCHANGED <<provider, url, strip_referral_marketing, before>>

\* A call of Provider::match_url.
MatchUrl ==
  /\ pc = "keys"
  /\ out' = [key |-> out.key, keys |-> out.keys,
             matched |-> match_url(KeyProviders[provider.id], url.bytes)]
  /\ pc' = "matched"
  /\ UNCHANGED <<provider, url, strip_referral_marketing, before>>

KeyNext == GetKey \/ KeysFromUrl \/ MatchUrl

KeySpec == KeyInit /\ [][KeyNext]_vars

(***************************************************************************)
(* The provider matcher and the domain-key index: properties               *)
(***************************************************************************)

\* C2: when the provider has a key and the key is not among the keys of the
\* URL, match_url is false.
C2_KeySound ==
  pc = "matched" => ((out.key # None /\ out.key[1] \notin Range(out.keys)) => ~out.matched)

\* C5: match_url is true exactly when url_pattern matches the URL, no
\* pattern of exceptions matches it and it is not "javascript:void(0)".
C5_MatchUrl ==
  pc = "matched" =>
    \E p \in {KeyProviders[provider.id]} :
      out.matched
        <=> /\ IsMatch(p.url_pattern, url.bytes)
            /\ \A i \in 1..Len(p.exceptions) : ~IsMatch(p.exceptions[i], url.bytes)
            /\ url.str # "javascript:void(0)"

\* C5's case: url_pattern and an exception both match, and match_url is false.
C5_Witness ==
  /\ pc = "matched"
  /\ url.str = "https://a.c/x"
  /\ IsMatch(KeyProviders[provider.id].url_pattern, url.bytes)
  /\ \E i \in 1..Len(KeyProviders[provider.id].exceptions) :
       IsMatch(KeyProviders[provider.id].exceptions[i], url.bytes)
  /\ ~out.matched

\* The length of the longest run of allowed domain characters s starts with.
RECURSIVE AllowedRun(_)
AllowedRun(s) ==
  IF s # <<>> /\ is_allowed_domain_char(s[1]) THEN 1 + AllowedRun(Tail(s)) ELSE 0

\* The run of n allowed characters the text tail starts with, when it is not
\* empty and the escaped dot follows it.
LabelBefore(tail, n) ==
  IF n > 0 /\ n + Len(PatternDelimiter) <= Len(tail)
       /\ SubSeq(tail, n + 1, n + Len(PatternDelimiter)) = PatternDelimiter
  THEN Some(Take(tail, n))
  ELSE None

\* The text after the prefix, when text starts with the prefix.
AfterPrefix(text) == IF StartsWith(text, KeyPrefix) THEN Some(Drop(text, Len(KeyPrefix))) ELSE None

\* The first label of a text after the prefix.
FirstLabel(tail) == IF tail = None THEN None ELSE LabelBefore(tail[1], AllowedRun(tail[1]))

\* The text of a pattern with \/ and \- un-escaped.
Unescaped(re) == Replace(Replace(PatternText(re), EscapedSlash, <<SLASH>>), EscapedDash, <<DASH>>)

\* C8 (amended): after un-escaping \/ and \- in the url_pattern text and
\* stripping the prefix ^https?://(?:[a-z0-9-]+\.)*?, the key is the first
\* label alone: the longest run of lowercase letters, digits and '-' the rest
\* starts with, and only when that run is not empty and the escaped dot
\* follows it; otherwise, and when the text does not start with the prefix,
\* there is no key.
C8_KeyIsFirstLabel ==
  pc \in {"key", "keys", "matched"} =>
    out.key = OptionView(FirstLabel(AfterPrefix(Unescaped(KeyProviders[provider.id].url_pattern))))

\* C8's case: a pattern with several labels after the prefix; its key is the
\* first of them.
C8_Witness ==
  /\ pc = "key"
  /\ provider.url_pattern = "^https?:\\/\\/(?:[a-z0-9-]+\\.)*?a\\.b\\.c"
  /\ out.key = Some(Str(<<97>>))

\* A piece of split_inclusive without the escaped dot it may end with.
WithoutDelimiter(piece) ==
  IF EndsWith(piece, PatternDelimiter) THEN Take(piece, Len(piece) - Len(PatternDelimiter))
  ELSE piece

\* The leading run of labels of a text after the prefix: its pieces between
\* escaped dots, up to the first that is empty or holds another character.
LeadingLabels(pieces) == TakeWhileLabel([i \in 1..Len(pieces) |-> WithoutDelimiter(pieces[i])])

\* The run as one key, or no key for an empty run.
RunAsKey(run) == IF run = <<>> THEN None ELSE Some(Join(run, UrlDelimiter))

\* The key as C8 words it.
LongestRun(tail) ==
  IF tail = None THEN None
  ELSE RunAsKey(LeadingLabels(SplitInclusive(tail[1], PatternDelimiter)))

\* C8 as worded: the key is the longest leading run of labels.
C8_AsWorded ==
  pc \in {"key", "keys", "matched"} =>
    out.key = OptionView(LongestRun(AfterPrefix(Unescaped(KeyProviders[provider.id].url_pattern))))

(***************************************************************************)
(* repeatedly_urldecode: inputs                                            *)
(***************************************************************************)

\* The most bytes of an input of repeatedly_urldecode after its start.
MaxLen == 5

\* The bytes the inputs are written with.
DecodeAlphabet == S(<<"%", "2", "5", "F">>)

\* The starts of the inputs.
DecodeStarts == {<<>>, HttpPrefix}

\* The inputs: a start and up to MaxLen bytes of the alphabet.
DecodeInputs ==
  {start \o [i \in 1..Len(w) |-> DecodeAlphabet[w[i]]] :
     start \in DecodeStarts, w \in SeqsUpTo(Len(DecodeAlphabet), MaxLen)}

(***************************************************************************)
(* repeatedly_urldecode: specification.  The call binds the argument and   *)
(* enters the loop, and a step is one pass of the loop; url holds the      *)
(* argument s and before the variable of that name.                        *)
(***************************************************************************)

DecodeInit ==
  /\ provider = None
  /\ url = None
  /\ strip_referral_marketing = FALSE
  /\ pc = "start"
  /\ out = None
  /\ before = None

\* The call of repeatedly_urldecode(s): before is s.
DecodeCall ==
  /\ pc = "start"
  /\ \E s \in DecodeInputs :
       /\ url' = Str(s)
       /\ before' = Str(s)
  /\ pc' = "loop"
  /\ UNCHANGED <<provider, strip_referral_marketing, out>>

\* What a pass that gave r leaves in the state.
AfterPass(r) ==
  /\ pc' = (IF r.step = "again" THEN "loop" ELSE r.step)
  /\ before' = (IF r.step = "again" THEN Str(r.s) ELSE before)
  /\ out' = (IF r.step = "return" THEN Some(Str(r.s)) ELSE None)

\* One pass of the loop of repeatedly_urldecode.
DecodeStep ==
  /\ pc = "loop"
  /\ \E after \in {PercentDecode(before.bytes)} :
       \E r \in {Decoded(before.bytes, after)} : AfterPass(r)
  /\ UNCHANGED <<provider, url, strip_referral_marketing>>

DecodeNext == DecodeCall \/ DecodeStep

\* Once called, the function does nothing but its loop: a pass that can be
\* made is made.
DecodeSpec == DecodeInit /\ [][DecodeNext]_vars /\ WF_vars(DecodeStep)

(***************************************************************************)
(* repeatedly_urldecode: properties                                        *)
(***************************************************************************)

\* A pass that changes the string gives a strictly shorter one.
PassShrinks == (pc = "loop" /\ before' # before) => Len(before'.bytes) < Len(before.bytes)

\* The call is over: it returned a string or the decode error.
DecodeOver == pc \in {"return", "error"}

\* What the call returned is what the last pass was run on, with "http://"
\* before it unless it starts with "http", and one more percent-decode pass
\* leaves both unchanged.
ReturnsFixedPoint ==
  pc = "return" =>
    /\ out[1].bytes = WithScheme(before.bytes)
    /\ PercentDecode(before.bytes) = before.bytes
    /\ PercentDecode(out[1].bytes) = out[1].bytes

\* An error is the decode error: the pass gave bytes that are no UTF-8.
ErrorIsDecodeError == pc = "error" => ~ValidUtf8(PercentDecode(before.bytes))

\* C10: repeatedly_urldecode terminates on every input: each pass that
\* changes the string gives a strictly shorter one, and the call ends with
\* the decode error or with a string one more pass leaves unchanged.
C10_Terminates ==
  /\ [][PassShrinks]_vars
  /\ (pc = "loop") ~> DecodeOver
  /\ [](ReturnsFixedPoint /\ ErrorIsDecodeError)

\* C10's case: an input that takes more than one changing pass ("%2525" is
\* "%25" after one and "%" after two) and then returns.
C10_Witness ==
  /\ pc = "return"
  /\ url.str = "%2525"
  /\ before.str = "%"
  /\ out[1].str = "http://%"

====
